---- MODULE Spec2Model ----
(***************************************************************************)
(* Model of gen_output_txt.py: gather_files_to_single_txt walks a directory *)
(* tree with os.walk, prunes folders, filters files by extension and by     *)
(* extension-stripped basename, and appends one delimited record (or one    *)
(* marker) per surviving file to a single output file.                      *)
(*                                                                          *)
(* Strings are sequences of one-character strings, so that lower(),         *)
(* endswith(), splitext(), join() and replace() are computed character by   *)
(* character.  The fixed literals of the f-strings are kept as single       *)
(* tokens of the output sequence.                                           *)
(***************************************************************************)
EXTENDS Integers, Sequences, FiniteSets, TLC

(* ------------------------------------------------------------------ *)
(* Bounds of the model                                                  *)
(* ------------------------------------------------------------------ *)
\* longest list of files placed in the root directory
MaxFiles == 2
\* number of failing writes to the output target injected in one behaviour
MaxFaults == 1
\* number of pending tokens the output file object holds before it flushes
BufSize == 6

(* ------------------------------------------------------------------ *)
(* Characters and strings                                               *)
(* ------------------------------------------------------------------ *)
NL == "\n"
BS == "\\"
SL == "/"
DOT == "."

UpperCase == <<"A","B","C","D","E","F","G","H","I","J","K","L","M",
               "N","O","P","Q","R","S","T","U","V","W","X","Y","Z">>
LowerCase == <<"a","b","c","d","e","f","g","h","i","j","k","l","m",
               "n","o","p","q","r","s","t","u","v","w","x","y","z">>

\* str.lower() on one character
LowerChar(c) ==
    IF \E i \in 1..26 : UpperCase[i] = c
    THEN LowerCase[CHOOSE i \in 1..26 : UpperCase[i] = c]
    ELSE c

\* str.lower()
Lower(s) == [i \in 1..Len(s) |-> LowerChar(s[i])]

\* str.endswith(suffix)
EndsWith(s, suf) ==
    /\ Len(suf) <= Len(s)
    /\ SubSeq(s, Len(s) - Len(suf) + 1, Len(s)) = suf

\* str.rfind(c), 1-based, 0 when c does not occur
RFind(s, c) ==
    IF \E i \in 1..Len(s) : s[i] = c
    THEN CHOOSE i \in 1..Len(s) : s[i] = c /\ \A j \in (i+1)..Len(s) : s[j] # c
    ELSE 0

Max(a, b) == IF a >= b THEN a ELSE b

\* str.replace(a, b) for one-character a and b
Replace(s, a, b) == [i \in 1..Len(s) |-> IF s[i] = a THEN b ELSE s[i]]

(* ------------------------------------------------------------------ *)
(* os.path on the two hosts                                             *)
(* ------------------------------------------------------------------ *)
Hosts == {"posix", "nt"}

\* os.sep
Sep(host) == IF host = "nt" THEN BS ELSE SL

\* the characters the host treats as path separators (os.sep, os.altsep)
Seps(host) == IF host = "nt" THEN {BS, SL} ELSE {SL}

\* os.path.join(a, b) for a relative b without a drive
Join(host, a, b) ==
    IF Len(a) = 0 \/ a[Len(a)] \in Seps(host)
    THEN a \o b
    ELSE a \o <<Sep(host)>> \o b

\* os.path.splitext(p): genericpath._splitext(p, sep, altsep, '.')
SplitExt(host, p) ==
    LET sepIndex == IF host = "nt" THEN Max(RFind(p, BS), RFind(p, SL))
                                   ELSE RFind(p, SL)
        dotIndex == RFind(p, DOT)
    IN  IF /\ dotIndex > sepIndex
           /\ \E k \in (sepIndex + 1)..(dotIndex - 1) : p[k] # DOT
        THEN <<SubSeq(p, 1, dotIndex - 1), SubSeq(p, dotIndex, Len(p))>>
        ELSE <<p, <<>>>>

RECURSIVE SplitAt(_, _, _)
\* the components of path p: split at every separator, empty parts dropped
SplitAt(seps, p, cur) ==
    IF Len(p) = 0
    THEN IF Len(cur) = 0 THEN <<>> ELSE <<cur>>
    ELSE IF p[1] \in seps
         THEN (IF Len(cur) = 0 THEN <<>> ELSE <<cur>>) \o SplitAt(seps, Tail(p), <<>>)
         ELSE SplitAt(seps, Tail(p), Append(cur, p[1]))

\* how the host resolves a path string to a chain of directory entries
Components(host, p) == SplitAt(Seps(host), p, <<>>)

(* ------------------------------------------------------------------ *)
(* Names, file contents and the file system                             *)
(* ------------------------------------------------------------------ *)
N_src == <<"s","r","c">>
N_build == <<"b","u","i","l","d">>
N_sub == <<"s","u","b">>
N_lib == <<"l","i","b">>
N_out == <<"o","u","t">>
N_o == <<"o">>
N_xjs == <<"x",".","j","s">>
N_abpng == <<"a",".","b",".","p","n","g">>
N_ABPNG == <<"A",".","B",".","P","N","G">>
N_READMEmd == <<"R","E","A","D","M","E",".","m","d">>
N_readmeMD == <<"r","e","a","d","m","e",".","M","D">>
N_env == <<".","e","n","v">>
N_LICENSE == <<"L","I","C","E","N","S","E">>
\* a POSIX file name that contains a backslash
N_build_xjs == <<"b","u","i","l","d","\\","x",".","j","s">>

E_png == <<".","p","n","g">>
E_PNG == <<".","P","N","G">>
E_md == <<".","m","d">>
B_README == <<"R","E","A","D","M","E">>
B_readme == <<"r","e","a","d","m","e">>
B_License == <<"L","i","c","e","n","s","e">>

\* file names a root directory is populated from
FilterPool == {N_xjs, N_abpng, N_ABPNG, N_READMEmd, N_readmeMD, N_env, N_LICENSE}

\* a byte that is not valid UTF-8, and the character errors='replace' puts for it
BADBYTE == "\\xff"
REPLCH == "\\ufffd"

\* raw contents of the files of the root directory
Contents == {<<>>, <<"x">>, <<NL>>, <<"x", NL>>, <<NL, "x">>, <<"x", BADBYTE>>}

\* bytes.decode('utf-8', errors='replace'): never raises, replaces bad bytes
Decode(bytes) == [i \in 1..Len(bytes) |-> IF bytes[i] = BADBYTE THEN REPLCH ELSE bytes[i]]

\* whether the permissive decode raises UnicodeDecodeError: it cannot
DecodeRaises(bytes) == FALSE

FileNode(c, ok) == [kind |-> "file", dirs |-> <<>>, files |-> <<>>, ok |-> ok, content |-> c]
DirNode(ds, fs0, ok) == [kind |-> "dir", dirs |-> ds, files |-> fs0, ok |-> ok, content |-> <<>>]
NoNode == [kind |-> "none", dirs |-> <<>>, files |-> <<>>, ok |-> FALSE, content |-> <<>>]

\* all lists of distinct names of S of length at most n
RECURSIVE Lists(_, _)
Lists(S, n) ==
    IF n = 0 THEN {<<>>}
    ELSE LET shorter == Lists(S, n - 1)
         IN  shorter \cup {Append(l, x) : l \in shorter, x \in S}

Distinct(l) == \A i, j \in DOMAIN l : l[i] = l[j] => i = j

\* The source tree:  src/{F0...}, src/lib/x.js, src/build/x.js, src/build/sub/x.js
\* F0: the root's files in listing order; c0: their raw content; unread: the
\* positions in F0 that cannot be opened; deepOK: whether the files below the
\* root can be opened; bad: the directories that cannot be listed.
Tree(F0, c0, unread, deepOK, bad) ==
    (<<N_src>> :> DirNode(<<N_lib, N_build>>, F0, <<N_src>> \notin bad))
    @@ (<<N_src, N_build>> :> DirNode(<<N_sub>>, <<N_xjs>>, <<N_src, N_build>> \notin bad))
    @@ (<<N_src, N_build, N_xjs>> :> FileNode(<<"y">>, deepOK))
    @@ (<<N_src, N_build, N_sub>> :> DirNode(<<>>, <<N_xjs>>, TRUE))
    @@ (<<N_src, N_build, N_sub, N_xjs>> :> FileNode(<<"z", NL>>, deepOK))
    @@ (<<N_src, N_lib>> :> DirNode(<<>>, <<N_xjs>>, <<N_src, N_lib>> \notin bad))
    @@ (<<N_src, N_lib, N_xjs>> :> FileNode(<<"l">>, deepOK))
    @@ [k \in {<<N_src, F0[i]>> : i \in DOMAIN F0} |->
            FileNode(c0, (CHOOSE i \in DOMAIN F0 : F0[i] = k[2]) \notin unread)]

ExtChoices == {{}, {E_png}, {E_PNG}, {E_png, E_md}}
FolderChoices == {{}, {N_build}, {N_build, N_src}}
NameChoices == {{}, {B_README, N_env}, {B_readme, B_License}}
\* the directories that cannot be listed: none, src/lib, src/build, or src
Unlistable == {{}, {<<N_src, N_lib>>}, {<<N_src, N_build>>}, {<<N_src>>}}
\* output_file: outside the tree, or inside its root directory
OutputChoices == {N_out, N_src \o <<SL>> \o N_o}

(* ------------------------------------------------------------------ *)
(* State                                                                *)
(* ------------------------------------------------------------------ *)
VARIABLES
    host,       \* the os the program runs on
    cfg,        \* the arguments of gather_files_to_single_txt
    fs,         \* the file system: chain of entry names -> node
    pc,         \* "start", "loop", "closing", "done", "error", "open_error"
    run,        \* 1 or 2: which call of the function is running
    stack,      \* os.walk: directories still to visit
    dirpath,    \* os.walk: the directory yielded last
    dirnames,   \* os.walk: its subdirectories, after pruning
    filenames,  \* its files not yet processed
    buf,        \* f_out: text written but not yet flushed
    budget,     \* how many operations on the output target may still fail
    faults,     \* how many operations on the output target have failed
    log,        \* what each loop iteration of the current run did
    wfail,      \* a write to f_out has failed in the current run
    late,       \* what the run attempted after that first failed write
    prev        \* status and output of the first run

vars == <<host, cfg, fs, pc, run, stack, dirpath, dirnames, filenames, buf,
          budget, faults, log, wfail, late, prev>>

\* the file-system entry a path string resolves to on this host
OutKey == Components(host, cfg.output_file)
Resolve(p) == IF Components(host, p) \in DOMAIN fs THEN fs[Components(host, p)] ELSE NoNode

\* what is on disk in the output file
Disk == IF OutKey \in DOMAIN fs THEN fs[OutKey].content ELSE <<>>

HasBackslash(l) == \E i \in DOMAIN l : \E j \in DOMAIN l[i] : l[i][j] = BS

Config(ext, fold, names, outp, unix) ==
    [src_dir |-> N_src, output_file |-> outp, skip_extensions |-> ext,
     skip_folders |-> fold, skip_filenames |-> names, enforce_unix_path |-> unix]

NoLate == [write |-> FALSE, open |-> FALSE]
NoPrev == [status |-> "none", out |-> <<>>]

InitRest ==
    /\ pc = "start"
    /\ run = 1
    /\ stack = <<>>
    /\ dirpath = <<>>
    /\ dirnames = <<>>
    /\ filenames = <<>>
    /\ buf = <<>>
    /\ faults = 0
    /\ log = <<>>
    /\ wfail = FALSE
    /\ late = NoLate
    /\ prev = NoPrev

\* every root listing and every filter configuration, on a tree of readable
\* files with a reliable output target
InitFilters ==
    /\ host = "posix"
    /\ budget = 0
    /\ \E F0 \in Lists(FilterPool, MaxFiles) :
         /\ Distinct(F0)
         /\ fs = Tree(F0, <<"x">>, {}, TRUE, {})
    /\ \E ext \in ExtChoices, names \in NameChoices :
         cfg = Config(ext, {N_build}, names, N_out, FALSE)

\* every content and every placing of unreadable files, with an output
\* target whose writes can fail
InitFormat ==
    /\ host = "posix"
    /\ budget = MaxFaults
    /\ \E F0 \in {<<N_xjs>>, <<N_xjs, N_LICENSE>>} :
       \E c0 \in Contents, unread \in SUBSET (DOMAIN F0), deepOK \in BOOLEAN :
         fs = Tree(F0, c0, unread, deepOK, {})
    /\ cfg = Config({E_png}, {N_build}, {B_README, N_env}, N_out, FALSE)

\* both hosts, both settings of enforce_unix_path, every folder
\* configuration and place of the output file, every choice of Unlistable
InitPaths ==
    /\ host \in Hosts
    /\ budget = 0
    /\ \E F0 \in {<<N_xjs>>, <<N_build_xjs, N_xjs>>, <<N_o, N_xjs>>}, bad \in Unlistable :
         /\ host = "nt" => ~HasBackslash(F0)
         /\ fs = Tree(F0, <<"x">>, {}, TRUE, bad)
    /\ \E fold \in FolderChoices, outp \in OutputChoices, unix \in BOOLEAN :
         cfg = Config({E_png}, fold, {B_README, N_env}, outp, unix)

Init == (InitFilters \/ InitFormat \/ InitPaths) /\ InitRest

(* ------------------------------------------------------------------ *)
(* The text the program writes                                          *)
(* ------------------------------------------------------------------ *)
T_open == "// ==========================="
T_start == " start here==========================="
T_ends == " ends here==========================="
T_binary == "// BINARY FILE: "
T_notshown == " (not shown)"
T_error == "// ERROR: Could not read "
T_colon == ": "

\* f'\n\n\n// ==========================={file_path} start here===========================\n'
StartText(p) == <<NL, NL, NL, T_open>> \o p \o <<T_start, NL>>

\* f'\n// ==========================={file_path} ends here===========================\n'
EndText(p) == <<NL, T_open>> \o p \o <<T_ends, NL>>

\* f'// BINARY FILE: {file_path} (not shown)\n\n'
BinaryText(p) == <<T_binary>> \o p \o <<T_notshown, NL, NL>>

\* f'// ERROR: Could not read {file_path}: {str(e)}\n\n'
ErrorText(p, msg) == <<T_error>> \o p \o <<T_colon>> \o msg \o <<NL, NL>>

\* str(e) of the OSError that open() raises on node n reached by path p
OpenError(n, p) ==
    <<(IF n.kind = "none" THEN "[Errno 2] No such file or directory: '"
       ELSE IF n.kind = "dir" THEN "[Errno 21] Is a directory: '"
       ELSE "[Errno 13] Permission denied: '")>> \o p \o <<"'">>

\* str(e) of the OSError that a failing f_out.write raises
WriteError == <<"[Errno 28] No space left on device">>

\* a faulty variant of TryWrites: the newline is written before the end marker, and
\* only when the content lacks one
TryWritesNewlineFirst(p, content) ==
    <<StartText(p), content>>
    \o (IF EndsWith(content, <<NL>>) THEN <<>> ELSE << <<NL>> >>)
    \o << <<T_open>> \o p \o <<T_ends, NL>> >>

\* the f_out.write calls of the try block, in order, after a successful read
TryWrites(p, content) ==
    <<StartText(p), content, EndText(p)>>
    \o (IF ~EndsWith(content, <<NL>>) THEN << <<NL>> >> ELSE <<>>)

(* ------------------------------------------------------------------ *)
(* The output file object                                               *)
(* ------------------------------------------------------------------ *)
\* f_out.write(w): the text is buffered and flushed once the buffer overflows
FWrite(st, w) ==
    LET b == st.buf \o w
    IN  IF Len(b) > BufSize
        THEN [buf |-> <<>>, disk |-> st.disk \o b]
        ELSE [buf |-> b, disk |-> st.disk]

RECURSIVE FWriteAll(_, _, _)
\* the first n writes of ws, all successful
FWriteAll(st, ws, n) ==
    IF n = 0 THEN st ELSE FWrite(FWriteAll(st, ws, n - 1), ws[n])

\* f_out.flush() at close
FFlush(st) == [buf |-> <<>>, disk |-> st.disk \o st.buf]

RECURSIVE Concat(_, _)
\* the concatenation of the first n sequences of ws
Concat(ws, n) == IF n = 0 THEN <<>> ELSE Concat(ws, n - 1) \o ws[n]

(* ------------------------------------------------------------------ *)
(* The filters and the path of a file                                   *)
(* ------------------------------------------------------------------ *)
\* any(filename.lower().endswith(ext) for ext in skip_extensions)
ExtSkip(filename) ==
    \E ext \in cfg.skip_extensions : EndsWith(Lower(filename), ext)

\* a faulty variant of BaseSkip: compares the names as they are
BaseSkipCaseSensitive(filename) ==
    LET file_base == SplitExt(host, filename)[1]
    IN  \E skip \in cfg.skip_filenames : skip = file_base

\* file_base = os.path.splitext(filename)[0]
\* any(skip.lower() == file_base.lower() for skip in skip_filenames)
BaseSkip(filename) ==
    LET file_base == SplitExt(host, filename)[1]
    IN  \E skip \in cfg.skip_filenames : Lower(skip) = Lower(file_base)

\* file_path = os.path.join(dirpath, filename), then the optional replace
FilePath(dir, filename) ==
    LET file_path == Join(host, dir, filename)
    IN  IF cfg.enforce_unix_path THEN Replace(file_path, BS, SL) ELSE file_path

\* a faulty variant of Prune: nothing is pruned
PruneNothing(ds) == ds

\* dirnames[:] = [d for d in dirnames if d not in skip_folders]
Prune(ds) == SelectSeq(ds, LAMBDA d : d \notin cfg.skip_folders)

(* ------------------------------------------------------------------ *)
(* Actions                                                              *)
(* ------------------------------------------------------------------ *)
Event(kind, dir, name, path, content, text) ==
    [kind |-> kind, dir |-> dir, name |-> name, path |-> path,
     opened |-> Components(host, path), content |-> content, text |-> text]

FileState == [buf |-> buf, disk |-> Disk]

\* a faulty variant of OpenedContent: mode 'a' keeps what the file held
OpenedContentAppend(old) == old

\* what the output file holds right after open(output_file, 'w'): nothing
OpenedContent(old) == <<>>

\* the listing of directory d with a new entry n at position i
Inserted(d, n, i) ==
    [d EXCEPT !.files = SubSeq(d.files, 1, i) \o <<n>> \o SubSeq(d.files, i + 1, Len(d.files))]

\* with open(output_file, 'w', encoding='utf-8') as f_out, and the call of os.walk
OpenOutput ==
    /\ pc = "start"
    /\ \E okOpen \in BOOLEAN :
         IF ~okOpen
         THEN \* the target cannot be opened: the exception reaches the caller
              /\ budget > 0
              /\ budget' = budget - 1
              /\ faults' = faults + 1
              /\ pc' = "open_error"
              /\ UNCHANGED <<fs, stack>>
         ELSE /\ pc' = "loop"
              /\ stack' = <<cfg.src_dir>>
              /\ UNCHANGED <<budget, faults>>
              /\ IF OutKey \in DOMAIN fs
                 THEN fs' = [fs EXCEPT ![OutKey].content = OpenedContent(@)]
                 ELSE LET parent == SubSeq(OutKey, 1, Len(OutKey) - 1)
                          made == OutKey :> FileNode(<<>>, TRUE)
                      IN  IF parent \in DOMAIN fs
                          THEN \E i \in 0..Len(fs[parent].files) :
                                 fs' = made @@ [fs EXCEPT ![parent] =
                                           Inserted(@, OutKey[Len(OutKey)], i)]
                          ELSE fs' = made @@ fs
    /\ UNCHANGED <<host, cfg, run, dirpath, dirnames, filenames, buf, log,
                   wfail, late, prev>>

\* a faulty variant of ListErrorText: an unlistable directory gets an ERROR marker
ListErrorTextMarker(top) == ErrorText(top, OpenError(Resolve(top), top))

\* what the run writes for a directory that os.walk cannot list: os.walk is
\* called without onerror, so the error is dropped and nothing is written
ListErrorText(top) == <<>>

\* one step of the os.walk generator: push the kept subdirectories of the
\* directory yielded last, pop the next directory and list it
WalkNext ==
    /\ pc = "loop"
    /\ filenames = <<>>
    /\ LET pushed == [i \in 1..Len(dirnames) |-> Join(host, dirpath, dirnames[i])] \o stack
       IN  IF pushed = <<>>
           THEN /\ pc' = "closing"
                /\ dirnames' = <<>>
                /\ UNCHANGED <<stack, dirpath, filenames, log, fs, buf>>
           ELSE LET top == Head(pushed)
                    node == Resolve(top)
                IN  /\ pc' = "loop"
                    /\ stack' = Tail(pushed)
                    /\ dirpath' = top
                    /\ IF node.kind = "dir" /\ node.ok
                       THEN /\ dirnames' = Prune(node.dirs)
                            /\ filenames' = node.files
                            /\ log' = Append(log, Event("dir", top, <<>>, top, <<>>, <<>>))
                            /\ UNCHANGED <<fs, buf>>
                       ELSE LET text == ListErrorText(top)
                                st == IF text = <<>> THEN FileState ELSE FWrite(FileState, text)
                            IN  /\ dirnames' = <<>>
                                /\ filenames' = <<>>
                                /\ log' = Append(log, Event("dirfail", top, <<>>, top, <<>>, text))
                                /\ fs' = [fs EXCEPT ![OutKey].content = st.disk]
                                /\ buf' = st.buf
    /\ UNCHANGED <<host, cfg, run, budget, faults, wfail, late, prev>>

\* a faulty variant of HandlerText: a failed read is reported as a binary file
HandlerTextBinary(p, msg) == BinaryText(p)

\* what the except Exception handler writes
HandlerText(p, msg) == ErrorText(p, msg)

\* One iteration of `for filename in filenames`.  k is the write of the try
\* block that fails (0: none); hOK tells whether the write of the handler
\* succeeds.  The result tells what the iteration did.
Iteration(filename, k, hOK) ==
    LET file_path == FilePath(dirpath, filename)
        node == Resolve(file_path)
        readable == node.kind = "file" /\ node.ok
        content == Decode(node.content)
        ws == TryWrites(file_path, content)
        st0 == FileState
    IN  IF ExtSkip(filename)
        THEN [valid |-> k = 0 /\ hOK, kind |-> "skip_ext", path |-> <<>>, content |-> <<>>,
              text |-> <<>>, st |-> st0, nfaults |-> 0, raised |-> FALSE,
              opens |-> FALSE, writes |-> FALSE, rewrites |-> FALSE]
        ELSE IF BaseSkip(filename)
        THEN [valid |-> k = 0 /\ hOK, kind |-> "skip_base", path |-> <<>>, content |-> <<>>,
              text |-> <<>>, st |-> st0, nfaults |-> 0, raised |-> FALSE,
              opens |-> FALSE, writes |-> FALSE, rewrites |-> FALSE]
        ELSE IF ~readable
        THEN \* open() raises OSError: except Exception
             LET text == HandlerText(file_path, OpenError(node, file_path))
             IN  [valid |-> k = 0, kind |-> IF hOK THEN "error" ELSE "abort",
                  path |-> file_path, content |-> <<>>,
                  text |-> IF hOK THEN text ELSE <<>>,
                  st |-> IF hOK THEN FWrite(st0, text) ELSE FFlush(st0),
                  nfaults |-> IF hOK THEN 0 ELSE 1, raised |-> ~hOK,
                  opens |-> TRUE, writes |-> TRUE, rewrites |-> FALSE]
        ELSE IF DecodeRaises(node.content)
        THEN \* except UnicodeDecodeError
             LET text == BinaryText(file_path)
             IN  [valid |-> k = 0, kind |-> IF hOK THEN "binary" ELSE "abort",
                  path |-> file_path, content |-> <<>>,
                  text |-> IF hOK THEN text ELSE <<>>,
                  st |-> IF hOK THEN FWrite(st0, text) ELSE FFlush(st0),
                  nfaults |-> IF hOK THEN 0 ELSE 1, raised |-> ~hOK,
                  opens |-> TRUE, writes |-> TRUE, rewrites |-> FALSE]
        ELSE IF k = 0
        THEN \* every write of the try block succeeds
             [valid |-> hOK, kind |-> "record", path |-> file_path, content |-> content,
              text |-> Concat(ws, Len(ws)), st |-> FWriteAll(st0, ws, Len(ws)),
              nfaults |-> 0, raised |-> FALSE,
              opens |-> TRUE, writes |-> TRUE, rewrites |-> FALSE]
        ELSE \* write k raises OSError inside the try block: except Exception
             LET done == FWriteAll(st0, ws, k - 1)
                 text == HandlerText(file_path, WriteError)
             IN  [valid |-> k <= Len(ws), kind |-> IF hOK THEN "partial" ELSE "abort",
                  path |-> file_path, content |-> content,
                  text |-> Concat(ws, k - 1) \o (IF hOK THEN text ELSE <<>>),
                  st |-> IF hOK THEN FWrite(done, text) ELSE FFlush(done),
                  nfaults |-> IF hOK THEN 1 ELSE 2, raised |-> ~hOK,
                  opens |-> TRUE, writes |-> TRUE, rewrites |-> TRUE]

\* the body of the loop over filenames, for the next file name
LoopBody ==
    /\ pc = "loop"
    /\ filenames # <<>>
    /\ \E k \in 0..4, hOK \in BOOLEAN :
       \E r \in {Iteration(Head(filenames), k, hOK)} :
             /\ r.valid
             /\ r.nfaults <= budget
             /\ budget' = budget - r.nfaults
             /\ faults' = faults + r.nfaults
             /\ filenames' = Tail(filenames)
             /\ fs' = [fs EXCEPT ![OutKey].content = r.st.disk]
             /\ buf' = r.st.buf
             /\ log' = Append(log, Event(r.kind, dirpath, Head(filenames), r.path,
                                         r.content, r.text))
             /\ pc' = IF r.raised THEN "error" ELSE "loop"
             /\ wfail' = (wfail \/ r.nfaults > 0)
             /\ late' = [write |-> late.write \/ (wfail /\ r.writes) \/ r.rewrites,
                         open |-> late.open \/ (wfail /\ r.opens)]
    /\ UNCHANGED <<host, cfg, run, stack, dirpath, dirnames, prev>>

\* leaving the with block after the walk is exhausted: f_out is closed
Finish ==
    /\ pc = "closing"
    /\ \E okClose \in BOOLEAN :
         IF okClose
         THEN /\ pc' = "done"
              /\ fs' = [fs EXCEPT ![OutKey].content = FFlush(FileState).disk]
              /\ buf' = <<>>
              /\ UNCHANGED <<budget, faults, wfail>>
         ELSE /\ budget > 0
              /\ budget' = budget - 1
              /\ faults' = faults + 1
              /\ buf # <<>>
              /\ pc' = "error"
              /\ wfail' = TRUE
              /\ buf' = <<>>
              /\ UNCHANGED fs
    /\ UNCHANGED <<host, cfg, run, stack, dirpath, dirnames, filenames, log, late, prev>>

\* the caller calls the function a second time with the same arguments
Rerun ==
    /\ pc \in {"done", "error", "open_error"}
    /\ run = 1
    /\ run' = 2
    /\ prev' = [status |-> pc, out |-> Disk]
    /\ pc' = "start"
    /\ stack' = <<>>
    /\ dirpath' = <<>>
    /\ dirnames' = <<>>
    /\ filenames' = <<>>
    /\ buf' = <<>>
    /\ log' = <<>>
    /\ wfail' = FALSE
    /\ late' = NoLate
    /\ UNCHANGED <<host, cfg, fs, budget, faults>>

Next == OpenOutput \/ WalkNext \/ LoopBody \/ Finish \/ Rerun

Spec == Init /\ [][Next]_vars

TypeOK ==
    /\ pc \in {"start", "loop", "closing", "done", "error", "open_error"}
    /\ run \in {1, 2}
    /\ budget + faults \in {0, MaxFaults}

(* ------------------------------------------------------------------ *)
(* Vocabulary of the properties                                         *)
(* ------------------------------------------------------------------ *)
Range(q) == {q[i] : i \in DOMAIN q}

IsFileEvent(e) == e.kind \notin {"dir", "dirfail"}
Skipped(e) == e.kind \in {"skip_ext", "skip_base"}
\* the iterations that got as far as opening the file
Handled(e) == IsFileEvent(e) /\ ~Skipped(e)

FileEvents == {i \in DOMAIN log : IsFileEvent(log[i])}
HandledEvents == {i \in DOMAIN log : Handled(log[i])}

RECURSIVE TextUpTo(_)
\* everything the first n iterations of the run appended to the output
TextUpTo(n) == IF n = 0 THEN <<>> ELSE TextUpTo(n - 1) \o log[n].text

\* the output as the run has produced it so far
Output == Disk \o buf

\* the file-system entry the walk enumerated in iteration e
Enumerated(e) == Components(host, Join(host, e.dir, e.name))

\* the directories the walk lists: below the root no name of skip_folders on
\* the way, and every directory on the way can be listed
VisitedDirs ==
    {k \in DOMAIN fs :
        /\ fs[k].kind = "dir"
        /\ k[1] = N_src
        /\ \A i \in 2..Len(k) : k[i] \notin cfg.skip_folders
        /\ \A i \in 1..Len(k) : fs[SubSeq(k, 1, i)].ok}

\* the files of the visited directories that pass both filters
Survivors ==
    UNION {{Append(k, n) : n \in {m \in Range(fs[k].files) : ~ExtSkip(m) /\ ~BaseSkip(m)}}
           : k \in VisitedDirs}

\* key k lies beneath a directory whose basename is in skip_folders
UnderSkipped(k) ==
    \E i \in 1..(Len(k) - 1) :
        /\ k[i] \in cfg.skip_folders
        /\ SubSeq(k, 1, i) \in DOMAIN fs
        /\ fs[SubSeq(k, 1, i)].kind = "dir"

\* t is one ERROR marker naming path p, and holds no start or end marker
IsErrorMarker(t, p) ==
    /\ Len(t) >= Len(p) + 4
    /\ SubSeq(t, 1, Len(p) + 2) = <<T_error>> \o p \o <<T_colon>>
    /\ SubSeq(t, Len(t) - 1, Len(t)) = <<NL, NL>>
    /\ \A i \in 2..Len(t) : t[i] \notin {T_error, T_binary, T_open}

\* the two strings are equal up to the case of their letters
SameIgnoringCase(a, b) ==
    /\ Len(a) = Len(b)
    /\ \A i \in 1..Len(a) :
         \/ a[i] = b[i]
         \/ \E j \in 1..26 : {a[i], b[i]} = {UpperCase[j], LowerCase[j]}

\* a file name without its last extension: the part before the last dot,
\* unless nothing but dots stands before that dot
Stem(n) ==
    IF \E d \in 1..Len(n) : /\ n[d] = DOT
                            /\ \A j \in (d + 1)..Len(n) : n[j] # DOT
                            /\ \E j \in 1..(d - 1) : n[j] # DOT
    THEN SubSeq(n, 1, (CHOOSE d \in 1..Len(n) :
                          n[d] = DOT /\ \A j \in (d + 1)..Len(n) : n[j] # DOT) - 1)
    ELSE n

(* ------------------------------------------------------------------ *)
(* C1                                                                   *)
(* ------------------------------------------------------------------ *)
\* C1: no file beneath a directory whose basename is in skip_folders (the
\* root directory included) is ever opened for reading or named in a record
\* or marker of the output.
C1_PrunedNeverRead ==
    \A i \in HandledEvents :
        ~(/\ log[i].opened \in DOMAIN fs
          /\ fs[log[i].opened].kind = "file"
          /\ UnderSkipped(log[i].opened))

(* ------------------------------------------------------------------ *)
(* C2                                                                   *)
(* ------------------------------------------------------------------ *)
\* the text of iteration e is exactly one record: a complete start/end
\* delimited record, or one BINARY FILE marker, or one ERROR marker
OneRecord(e) ==
    \/ e.text = Concat(TryWrites(e.path, e.content), Len(TryWrites(e.path, e.content)))
    \/ e.text = BinaryText(e.path)
    \/ IsErrorMarker(e.text, e.path)

\* C2: when a run completes, every file of a visited directory that passes
\* both filters has exactly one record in the output (a complete record, or
\* one BINARY FILE marker, or one ERROR marker, never a partial record plus
\* a marker), and every pruned or filtered file has none.
C2_ExactlyOneRecord ==
    pc = "done" =>
        /\ Disk = TextUpTo(Len(log))
        /\ \A k \in Survivors :
             /\ Cardinality({i \in HandledEvents : Enumerated(log[i]) = k}) = 1
             /\ \A i \in HandledEvents : Enumerated(log[i]) = k => OneRecord(log[i])
        /\ \A i \in FileEvents :
             Enumerated(log[i]) \notin Survivors => log[i].text = <<>>

(* ------------------------------------------------------------------ *)
(* C3                                                                   *)
(* ------------------------------------------------------------------ *)
\* the start marker line and the end marker line of path p
StartLine(p) == <<T_open>> \o p \o <<T_start, NL>>
EndLine(p) == <<T_open>> \o p \o <<T_ends, NL>>

\* C3 as stated: the record of a successfully read file is three newlines,
\* the start marker line, the content, one newline only if the content does
\* not end with one, and the end marker line, with nothing after it.
C3_RecordAsStated ==
    \A i \in DOMAIN log :
        log[i].kind = "record" =>
            log[i].text = <<NL, NL, NL>> \o StartLine(log[i].path) \o log[i].content
                          \o (IF EndsWith(log[i].content, <<NL>>) THEN <<>> ELSE <<NL>>)
                          \o EndLine(log[i].path)

\* C3 as amended: the record of a successfully read file, written without an
\* output failure, is three newlines, the start marker line, the decoded
\* content verbatim, always one newline, the end marker line, and then one
\* more newline only if the content does not end with a newline; the output
\* is the concatenation of what the iterations appended.
C3_RecordText ==
    /\ pc \notin {"error", "open_error", "start"} => Output = TextUpTo(Len(log))
    /\ \A i \in DOMAIN log :
         log[i].kind = "record" =>
            /\ log[i].text = <<NL, NL, NL>> \o StartLine(log[i].path) \o log[i].content
                             \o <<NL>> \o EndLine(log[i].path)
                             \o (IF EndsWith(log[i].content, <<NL>>) THEN <<>> ELSE <<NL>>)
            /\ log[i].opened # OutKey =>
                 log[i].content = Decode(fs[log[i].opened].content)

\* a completed run holding a record whose content ends with a newline, one
\* whose content does not, and one with a replaced invalid byte or none
C3_Witness ==
    /\ pc = "done"
    /\ \E i \in DOMAIN log : log[i].kind = "record" /\ EndsWith(log[i].content, <<NL>>)
    /\ \E i \in DOMAIN log : log[i].kind = "record" /\ ~EndsWith(log[i].content, <<NL>>)
    /\ Disk # <<>>

(* ------------------------------------------------------------------ *)
(* C4                                                                   *)
(* ------------------------------------------------------------------ *)
\* C4: whenever the lowercased file name ends with the lowercased member of
\* skip_extensions, whatever the case of either as written, the file is
\* skipped with no record and no marker.
C4_ExtensionAnyCase ==
    \A i \in FileEvents :
        (\E ext \in cfg.skip_extensions : EndsWith(Lower(log[i].name), Lower(ext)))
            => Skipped(log[i]) /\ log[i].text = <<>>

(* ------------------------------------------------------------------ *)
(* C5                                                                   *)
(* ------------------------------------------------------------------ *)
\* the stem of the file name equals a member of skip_filenames, ignoring case
StemListed(n) == \E skip \in cfg.skip_filenames : SameIgnoringCase(skip, Stem(n))

\* C5: a file of a visited directory is skipped, with no record and no
\* marker, whenever its name without the last extension equals a member of
\* skip_filenames up to case, also when no extension matches; a file that
\* matches neither filter is never skipped.
C5_BasenameFilter ==
    \A i \in FileEvents :
        /\ StemListed(log[i].name) => Skipped(log[i]) /\ log[i].text = <<>>
        /\ (~StemListed(log[i].name) /\ ~ExtSkip(log[i].name)) => ~Skipped(log[i])

\* a file skipped by its basename alone, written in another case than the
\* member of skip_filenames, next to a file that passed both filters
C5_Witness ==
    /\ \E i \in FileEvents :
         /\ log[i].kind = "skip_base"
         /\ ~ExtSkip(log[i].name)
         /\ Stem(log[i].name) \notin cfg.skip_filenames
         /\ Stem(log[i].name) # log[i].name
    /\ \E i \in FileEvents : log[i].kind = "record"

(* ------------------------------------------------------------------ *)
(* C6                                                                   *)
(* ------------------------------------------------------------------ *)
\* the open of iteration e fails: its path does not lead to a readable file
OpenFails(e) == ~(e.opened \in DOMAIN fs /\ fs[e.opened].kind = "file" /\ fs[e.opened].ok)

\* C6: a surviving file whose open fails gets one ERROR marker naming its
\* path and no start or end marker; the loop goes on, so that a completed
\* run has handled every surviving file; and the run ends with an error only
\* when the output target has failed, however many files were unreadable.
C6_ReadFailureIsLocal ==
    /\ \A i \in HandledEvents :
         OpenFails(log[i]) =>
            /\ log[i].kind \in {"error", "abort"}
            /\ log[i].kind = "error" => IsErrorMarker(log[i].text, log[i].path)
            /\ log[i].kind = "abort" => wfail /\ pc = "error"
    /\ pc = "done" =>
         \A k \in Survivors : \E i \in HandledEvents : Enumerated(log[i]) = k
    /\ pc = "error" => wfail
    /\ (pc = "loop" /\ log # <<>> /\ log[Len(log)].kind = "error") =>
         Output = TextUpTo(Len(log) - 1) \o log[Len(log)].text

\* a completed run in which every surviving file was unreadable, in two
\* directories
C6_Witness ==
    /\ pc = "done"
    /\ Cardinality({i \in DOMAIN log : log[i].kind = "error"}) >= 3
    /\ \A i \in HandledEvents : log[i].kind = "error"
    /\ Disk = TextUpTo(Len(log))

(* ------------------------------------------------------------------ *)
(* C7                                                                   *)
(* ------------------------------------------------------------------ *)
\* C7: after the first failed write to the output no further write is
\* attempted, no further source file is opened, and the run does not end
\* with success.
C7_WriteFailureIsFatal ==
    wfail => /\ ~late.write
             /\ ~late.open
             /\ pc \notin {"done", "closing"}

(* ------------------------------------------------------------------ *)
(* C8                                                                   *)
(* ------------------------------------------------------------------ *)
IsPrefix(a, b) == Len(a) <= Len(b) /\ SubSeq(b, 1, Len(a)) = a

\* the directories the walk tries to list and cannot
FailingDirs ==
    {k \in DOMAIN fs :
        /\ fs[k].kind = "dir"
        /\ k[1] = N_src
        /\ \A i \in 2..Len(k) : k[i] \notin cfg.skip_folders
        /\ \A i \in 1..(Len(k) - 1) : fs[SubSeq(k, 1, i)].ok
        /\ ~fs[k].ok}

\* C8 as stated: a directory that cannot be listed gets a marker naming it
\* in the output.
C8_MarkerForDirectory ==
    \A i \in DOMAIN log :
        log[i].kind = "dirfail" =>
            \E j \in DOMAIN log[i].text : log[i].text[j] \in {T_error, T_binary, T_open}

\* C8 as amended: a directory that cannot be listed gets no marker and
\* nothing else in the output; nothing beneath it is handled; the walk goes
\* on, so that a completed run has listed every other directory it had to;
\* and the run does not end with an error on that account.
C8_ListingFailureIsSilent ==
    /\ \A i \in DOMAIN log :
         log[i].kind = "dirfail" =>
            /\ log[i].text = <<>>
            /\ \A j \in DOMAIN log :
                 j # i => ~IsPrefix(log[i].opened, Components(host, log[j].dir))
    /\ pc \notin {"error", "open_error", "start"} => Output = TextUpTo(Len(log))
    /\ pc = "done" =>
         /\ \A k \in VisitedDirs :
              \E i \in DOMAIN log : log[i].kind = "dir" /\ log[i].opened = k
         /\ \A k \in FailingDirs :
              \E i \in DOMAIN log : log[i].kind = "dirfail" /\ log[i].opened = k
    /\ pc = "error" => wfail

\* a completed run that could not list one directory and then listed
\* another one and wrote a record for a file in it
C8_Witness ==
    /\ pc = "done"
    /\ \E i, j, l \in DOMAIN log :
         /\ i < j /\ j < l
         /\ log[i].kind = "dirfail"
         /\ log[j].kind = "dir"
         /\ log[l].kind = "record"

(* ------------------------------------------------------------------ *)
(* C9                                                                   *)
(* ------------------------------------------------------------------ *)
\* C9: two completed runs with the same arguments on a tree that did not
\* change in between, with a working output target, leave the same bytes in
\* the output file, also when the output file lies inside the tree.
C9_SecondRunSameOutput ==
    (run = 2 /\ pc = "done" /\ prev.status = "done" /\ faults = 0) => Disk = prev.out

\* a second completed run whose output file lies in the tree, is itself read
\* with what was flushed so far, and ends up with the bytes of the first run
C9_Witness ==
    /\ run = 2
    /\ pc = "done"
    /\ prev.status = "done"
    /\ faults = 0
    /\ prev.out # <<>>
    /\ OutKey[1] = N_src
    /\ \E i \in DOMAIN log :
         /\ log[i].kind = "record"
         /\ log[i].opened = OutKey
         /\ log[i].content # <<>>

(* ------------------------------------------------------------------ *)
(* C10                                                                  *)
(* ------------------------------------------------------------------ *)
\* C10: with enforce_unix_path on or off, the file opened is the file the
\* walk enumerated (the directory path joined with the file name), and with
\* it on no emitted path contains a backslash.
C10_OpensEnumeratedFile ==
    \A i \in HandledEvents :
        /\ log[i].opened = Enumerated(log[i])
        /\ cfg.enforce_unix_path => BS \notin Range(log[i].path)

(* ------------------------------------------------------------------ *)
(* C1 as amended                                                        *)
(* ------------------------------------------------------------------ *)
\* C1 as amended: a directory other than the root whose basename is in
\* skip_folders is never listed, and no file beneath it, at any depth, is
\* ever enumerated by the walk (so none is filtered, opened or recorded as
\* an entry of the walk); the root directory is listed whatever its name.
C1_PrunedNeverWalked ==
    /\ \A i \in DOMAIN log :
         IF IsFileEvent(log[i])
         THEN \A j \in 2..(Len(Enumerated(log[i])) - 1) :
                 Enumerated(log[i])[j] \notin cfg.skip_folders
         ELSE \A j \in 2..Len(log[i].opened) : log[i].opened[j] \notin cfg.skip_folders
    /\ (pc \in {"closing", "done"} /\ fs[<<N_src>>].ok) =>
         log[1].kind = "dir" /\ log[1].opened = <<N_src>>

\* a completed run with the root's own name and a subdirectory's name in
\* skip_folders: the root's file has its record, and the pruned directory
\* holds, two levels down, a file that passes both filters
C1_Witness ==
    /\ pc = "done"
    /\ {N_src, N_build} \subseteq cfg.skip_folders
    /\ \E i \in DOMAIN log : log[i].kind = "record" /\ log[i].opened = <<N_src, N_xjs>>
    /\ <<N_src, N_build, N_sub, N_xjs>> \in DOMAIN fs
    /\ ~ExtSkip(N_xjs) /\ ~BaseSkip(N_xjs)

====
